---- MODULE Spec2Model ----
(***************************************************************************)
(* A model of paramiko-ssh-mock: the process-wide registry of mocked       *)
(* remote devices (ParamikoMockEnviron), the devices (MockRemoteDevice)    *)
(* and the client facade (SSHClientMock) with connect, exec_command,       *)
(* open_sftp and close.                                                     *)
(*                                                                         *)
(* Python strings are sequences of one-character strings, so that          *)
(* startswith, endswith, slicing and re.match are computed and not         *)
(* assumed.  Python objects that are shared by reference (the devices and  *)
(* their filesystems) live in heaps indexed by object ids; an object that  *)
(* nothing references any more is reclaimed.                               *)
(***************************************************************************)
EXTENDS Integers, Sequences, FiniteSets, TLC

VARIABLES
    remote_devices,        \* ParamikoMockEnviron.__remote_devices__ : key -> device id
    heap,                  \* the MockRemoteDevice objects, by id
    device,                \* SSHClientMock.device, per client
    selected_host,         \* SSHClientMock.selected_host, per client
    last_connect_kwargs,   \* SSHClientMock.last_connect_kwargs, per client
    sftp_client_mock,      \* SSHClientMock.sftp_client_mock, per client
    filesystems,           \* the SFTPFileSystem objects of the devices, by id
    local_filesystem,      \* ParamikoMockEnviron.__local_filesystem__.file_system
    session,               \* history variable: "new", "connected" (the last connect
                           \* succeeded and no close followed) or "closed", per client
    ret                    \* outcome of the last call: what it returned or raised

vars == <<remote_devices, heap, device, selected_host, last_connect_kwargs,
          sftp_client_mock, filesystems, local_filesystem, session, ret>>

-----------------------------------------------------------------------------
(* Bounds *)

MaxDevs == 3        \* device objects alive at the same time
MaxHist == 2        \* commands in one device's history
MaxTable == 2       \* entries of a response table drawn for the resolver
NClients == 2       \* SSHClientMock instances

-----------------------------------------------------------------------------
(* Values *)

None == "None"               \* Python's None, where the other values are strings
NoneRef == 0                 \* None, where the other values are object ids
NoneObj == [kind |-> "None"] \* None, where the other values are records
Unset == "Unset"             \* an attribute that was never assigned
NoDev == [kind |-> "NoDev"]  \* a free slot of the heap of devices
NoFs == [kind |-> "NoFs"]    \* a free slot of the heap of filesystems

Clients == 1..NClients
DevIds == 1..MaxDevs

Hosts == {"h1", "h2"}
Ports == {22}
Usernames == {None, "u", "w"}
Passwords == {None, "p", "x"}
Failures == {None, "TimeoutError"}
Kwargs == {"none", "banner_timeout"}

\* command strings
CmdLs == <<"l", "s">>
CmdL == <<"l">>
CmdSl == <<"s", "l">>
CmdRe == <<"r", "e", "(", "l", ")">>

\* keys of response tables
KeyLs == <<"l", "s">>                          \* ls
KeyReL == <<"r", "e", "(", "l", ")">>          \* re(l)
KeyReDotS == <<"r", "e", "(", ".", "s", ")">>  \* re(.s)
KeyReS == <<"r", "e", "(", "s", ")">>          \* re(s)
KeyReLStar == <<"r", "e", "(", "l", "*", ")">> \* re(l*)
KeyOpen == <<"r", "e", "(", "l">>              \* re(l   (no closing parenthesis)
KeyClose == <<"l", ")">>                       \* l)     (no re( prefix)
KeyEmpty == <<"r", "e", "(", ")">>             \* re()

-----------------------------------------------------------------------------
(* Strings *)

startswith(s, prefix) ==
    /\ Len(s) >= Len(prefix)
    /\ SubSeq(s, 1, Len(prefix)) = prefix

endswith(s, suffix) ==
    /\ Len(s) >= Len(suffix)
    /\ SubSeq(s, Len(s) - Len(suffix) + 1, Len(s)) = suffix

\* s[3:-1]
slice_3_m1(s) == SubSeq(s, 4, Len(s) - 1)

\* one pattern atom against one character: "." is any character
atom_match(a, ch) == a = "." \/ a = ch

\* re.search in the place of re.match: the pattern may match anywhere in the
\* string
RECURSIVE match_here(_, _)
match_here(p, s) ==
    IF p = <<>> THEN TRUE
    ELSE IF Len(p) >= 2 /\ p[2] = "*"
         THEN \/ match_here(SubSeq(p, 3, Len(p)), s)
              \/ /\ s # <<>>
                 /\ atom_match(p[1], s[1])
                 /\ match_here(p, Tail(s))
         ELSE /\ s # <<>>
              /\ atom_match(p[1], s[1])
              /\ match_here(Tail(p), Tail(s))

re_search(p, s) ==
    \E k \in 0..Len(s) : match_here(p, SubSeq(s, k + 1, Len(s)))

\* re.match(pattern, string) is not None, for patterns made of literal
\* characters, "." and a postfix "*": the pattern has to match at the start of
\* the string and need not reach its end.
RECURSIVE re_match(_, _)
re_match(p, s) ==
    IF p = <<>> THEN TRUE
    ELSE IF Len(p) >= 2 /\ p[2] = "*"
         THEN \/ re_match(SubSeq(p, 3, Len(p)), s)
              \/ /\ s # <<>>
                 /\ atom_match(p[1], s[1])
                 /\ re_match(p, Tail(s))
         ELSE /\ s # <<>>
              /\ atom_match(p[1], s[1])
              /\ re_match(Tail(p), Tail(s))

-----------------------------------------------------------------------------
(* Responses.  A response table is a Python dict: a sequence of entries    *)
(* with distinct keys, in insertion order.                                  *)

\* ord(ch) of the characters that occur in commands, keys and outputs
Ord ==
    [ch \in {"l", "s", "r", "e", "(", ")", ".", "*", "\n", "x", "y"} |->
        CASE ch = "l" -> 108 [] ch = "s" -> 115 [] ch = "r" -> 114
          [] ch = "e" -> 101 [] ch = "(" -> 40  [] ch = ")" -> 41
          [] ch = "." -> 46  [] ch = "*" -> 42  [] ch = "\n" -> 10
          [] ch = "x" -> 120 [] ch = "y" -> 121]

\* str.encode("utf-8"): one byte for each of these characters
encode(string) == [i \in 1..Len(string) |-> Ord[string[i]]]

\* BytesIO(initial_bytes): a stream object holding bytes, with the position
\* its next read starts at
BytesIO(initial_bytes) == [kind |-> "BytesIO", value |-> initial_bytes, pos |-> 0]

\* stream.read(): the bytes from the stream's position to its end
read(stream) == SubSeq(stream.value, stream.pos + 1, Len(stream.value))

\* StderrMock(initial_bytes, exit_status): a stream whose channel answers
\* recv_exit_status() with exit_status
StderrMock(initial_bytes, exit_status) ==
    [kind |-> "StderrMock", value |-> initial_bytes, exit_status |-> exit_status]

\* stream.channel.recv_exit_status(): a BytesIO has no attribute channel
recv_exit_status_of(stream) ==
    IF stream.kind = "StderrMock"
    THEN [exc |-> None, val |-> stream.exit_status]
    ELSE [exc |-> "AttributeError", val |-> -1]

\* the constructor called with three str arguments, which it encodes and
\* wraps
SSHCommandMock(stdin, stdout, stderr) ==
    [kind |-> "static",
     stdin |-> BytesIO(encode(stdin)),
     stdout |-> BytesIO(encode(stdout)),
     stderr |-> BytesIO(encode(stderr))]

SSHCommandFunctionMock(callback) ==
    [kind |-> "callback", callback |-> callback]

Entry(key, response) == [key |-> key, response |-> response]

\* dict.get(key): the value under key, None when there is none
dict_get(responses, key) ==
    IF \E i \in 1..Len(responses) : responses[i].key = key
    THEN responses[CHOOSE i \in 1..Len(responses) : responses[i].key = key].response
    ELSE NoneObj


\* the callbacks a SSHCommandFunctionMock is given here: "echo" answers with
\* the command it was called with, "history" with the command history of the
\* client's device as it is when the callback runs
RECURSIVE join_lines(_)
join_lines(lines) ==
    IF lines = <<>> THEN <<>>
    ELSE IF Len(lines) = 1 THEN lines[1]
    ELSE lines[1] \o <<"\n">> \o join_lines(Tail(lines))

\* needle in string
contains(string, needle) ==
    \E i \in 1..(Len(string) - Len(needle) + 1) :
       SubSeq(string, i, i + Len(needle) - 1) = needle

\* "status" answers with an error stream that carries exit status 1 when the
\* command contains "sl" and 0 when it does not
callback_result(callback, command_history, command) ==
    IF callback = "echo"
    THEN <<BytesIO(encode(<<>>)), BytesIO(encode(command)), BytesIO(encode(<<>>))>>
    ELSE IF callback = "status"
    THEN <<BytesIO(encode(<<>>)), BytesIO(encode(command)),
           IF contains(command, <<"s", "l">>)
           THEN StderrMock(encode(<<"e">>), 1)
           ELSE StderrMock(encode(<<>>), 0)>>
    ELSE <<BytesIO(encode(<<>>)), BytesIO(encode(join_lines(command_history))),
           BytesIO(encode(<<>>))>>

\* the calls of callbacks that calling the response makes
callback_calls(response, command) ==
    IF response.kind = "static" THEN <<>>
    ELSE <<[callback |-> response.callback, command |-> command]>>

\* call_response handing on the content of the error stream in a new BytesIO
call_response_rewraps(response, command_history, command) ==
    IF response.kind = "static"
    THEN <<response.stdin, response.stdout, response.stderr>>
    ELSE LET result == callback_result(response.callback, command_history, command)
         IN <<result[1], result[2], BytesIO(result[3].value)>>

\* response(ssh_client_mock, command)
call_response(response, command_history, command) ==
    IF response.kind = "static"
    THEN <<response.stdin, response.stdout, response.stderr>>
    ELSE callback_result(response.callback, command_history, command)

\* scan_patterns without the break: the last matching pattern wins
RECURSIVE scan_patterns_last_wins(_, _, _)
scan_patterns_last_wins(responses, i, command) ==
    IF i > Len(responses) THEN NoneObj
    ELSE LET command_key == responses[i].key
             later == scan_patterns_last_wins(responses, i + 1, command)
         IN
         IF /\ later = NoneObj
            /\ startswith(command_key, <<"r", "e", "(">>)
            /\ endswith(command_key, <<")">>)
            /\ re_match(slice_3_m1(command_key), command)
         THEN responses[i].response
         ELSE later

\* scan_patterns taking every key that starts with re( for a pattern
RECURSIVE scan_patterns_no_endswith(_, _, _)
scan_patterns_no_endswith(responses, i, command) ==
    IF i > Len(responses) THEN NoneObj
    ELSE LET command_key == responses[i].key IN
         IF /\ startswith(command_key, <<"r", "e", "(">>)
            /\ re_match(slice_3_m1(command_key), command)
         THEN responses[i].response
         ELSE scan_patterns_no_endswith(responses, i + 1, command)

\* the for loop of exec_command over the keys from position i on: the
\* response of the first key of the form re(<pattern>) whose pattern matches
RECURSIVE scan_patterns(_, _, _)
scan_patterns(responses, i, command) ==
    IF i > Len(responses) THEN NoneObj
    ELSE LET command_key == responses[i].key IN
         IF /\ startswith(command_key, <<"r", "e", "(">>)
            /\ endswith(command_key, <<")">>)
            /\ re_match(slice_3_m1(command_key), command)
         THEN responses[i].response
         ELSE scan_patterns(responses, i + 1, command)

\* resolve trying the patterns before the exact key
resolve_patterns_first(responses, command) ==
    LET response == scan_patterns(responses, 1, command) IN
    IF response = NoneObj THEN dict_get(responses, command) ELSE response

\* the response exec_command settles on, None when there is none
resolve(responses, command) ==
    LET response == dict_get(responses, command) IN
    IF response = NoneObj THEN scan_patterns(responses, 1, command) ELSE response

-----------------------------------------------------------------------------
(* Devices *)

host_key(host, port) == host \o ":" \o ToString(port)

HostKeys == {host_key(h, p) : h \in Hosts, p \in Ports}

\* fs is the new SFTPFileSystem() the constructor makes
MockRemoteDevice(host, port, responses, username, password, fs) ==
    [host |-> host, port |-> port, responses |-> responses,
     username |-> username, password |-> password,
     filesystem |-> fs, local_filesystem |-> "local_filesystem",
     command_history |-> <<>>]

\* the connection_failure attribute connect reads from the device
with_connection_failure(dev, connection_failure) ==
    dev @@ [connection_failure |-> connection_failure]

\* authenticate comparing the usernames only
authenticate_username_only(dev, username, password) ==
    IF dev.username = None /\ dev.password = None
    THEN TRUE
    ELSE dev.username = username

\* authenticate without the open access of a device that has no credentials
authenticate_no_open_access(dev, username, password) ==
    <<dev.username, dev.password>> = <<username, password>>

authenticate(dev, username, password) ==
    IF dev.username = None /\ dev.password = None
    THEN TRUE
    ELSE <<dev.username, dev.password>> = <<username, password>>

\* clear leaving the history as it is
clear_nothing(dev) == dev

clear(dev) == [dev EXCEPT !.command_history = <<>>]

\* add_command_to_history putting the command before the earlier ones
add_command_to_history_first(dev, command) ==
    [dev EXCEPT !.command_history = <<command>> \o @]

add_command_to_history(dev, command) ==
    [dev EXCEPT !.command_history = Append(@, command)]

-----------------------------------------------------------------------------
(* The heaps *)

\* a device lives as long as the registry or a client holds it
collect(h, rd, dv) ==
    [id \in DevIds |->
        IF \/ \E k \in DOMAIN rd : rd[k] = id
           \/ \E c \in Clients : dv[c] = id
        THEN h[id] ELSE NoDev]

\* a filesystem lives as long as its device or a file-transfer sub-client does
collect_fs(f, h, sf) ==
    [id \in DevIds |->
        IF \/ h[id] # NoDev
           \/ \E c \in Clients : sf[c] # NoneObj /\ sf[c].filesystem = id
        THEN f[id] ELSE NoFs]

\* the heaps after a call that leaves the objects h and f and the references
\* rd (registry), dv (clients' devices) and sf (clients' sub-clients)
store(h, f, rd, dv, sf) ==
    /\ heap' = collect(h, rd, dv)
    /\ filesystems' = collect_fs(f, collect(h, rd, dv), sf)

free_ids == {id \in DevIds : heap[id] = NoDev /\ filesystems[id] = NoFs}

new_id == CHOOSE id \in free_ids : \A other \in free_ids : id <= other

\* the outcome of a call: the exception it raised (None: it returned) and
\* the value it returned
Ret(op, client, exc, val) ==
    [op |-> op, client |-> client, exc |-> exc, val |-> val]

-----------------------------------------------------------------------------
(* ParamikoMockEnviron *)

\* the device registered under a key, None where the code raises BadSetupError
get_remote_device(host) == remote_devices[host]

\* add_responses_for_host keeping the history of the device it replaces
add_responses_for_host_keeps_history(host, port, responses, username, password, connection_failure) ==
    /\ free_ids # {}
    /\ LET id == new_id
           old == remote_devices[host_key(host, port)]
           made == with_connection_failure(
                      MockRemoteDevice(host, port, responses, username, password, id),
                      connection_failure)
           rd == [remote_devices EXCEPT ![host_key(host, port)] = id]
           h == [heap EXCEPT ![id] =
                    IF old = NoneRef THEN made
                    ELSE [made EXCEPT !.command_history = heap[old].command_history]]
           f == [filesystems EXCEPT ![id] = <<>>]
       IN /\ remote_devices' = rd
          /\ store(h, f, rd, device, sftp_client_mock)
    /\ ret' = Ret("add_responses_for_host", NoneRef, None, NoneObj)
    /\ UNCHANGED <<device, selected_host, last_connect_kwargs, sftp_client_mock,
                   local_filesystem, session>>

\* add_responses_for_host giving the devices of one host, whatever their
\* port, one remote filesystem
add_responses_for_host_files_by_host(host, port, responses, username, password, connection_failure) ==
    /\ free_ids # {}
    /\ LET id == new_id
           same == {k \in DOMAIN remote_devices :
                       /\ remote_devices[k] # NoneRef
                       /\ heap[remote_devices[k]].host = host}
           fs == IF same = {} THEN id
                 ELSE heap[remote_devices[CHOOSE k \in same : TRUE]].filesystem
           rd == [remote_devices EXCEPT ![host_key(host, port)] = id]
           h == [heap EXCEPT ![id] = with_connection_failure(
                    MockRemoteDevice(host, port, responses, username, password, fs),
                    connection_failure)]
           f == IF same = {} THEN [filesystems EXCEPT ![id] = <<>>] ELSE filesystems
       IN /\ remote_devices' = rd
          /\ store(h, f, rd, device, sftp_client_mock)
    /\ ret' = Ret("add_responses_for_host", NoneRef, None, NoneObj)
    /\ UNCHANGED <<device, selected_host, last_connect_kwargs, sftp_client_mock,
                   local_filesystem, session>>

add_responses_for_host(host, port, responses, username, password, connection_failure) ==
    /\ free_ids # {}
    /\ LET id == new_id
           rd == [remote_devices EXCEPT ![host_key(host, port)] = id]
           h == [heap EXCEPT ![id] = with_connection_failure(
                    MockRemoteDevice(host, port, responses, username, password, id),
                    connection_failure)]
           f == [filesystems EXCEPT ![id] = <<>>]
       IN /\ remote_devices' = rd
          /\ store(h, f, rd, device, sftp_client_mock)
    /\ ret' = Ret("add_responses_for_host", NoneRef, None, NoneObj)
    /\ UNCHANGED <<device, selected_host, last_connect_kwargs, sftp_client_mock,
                   local_filesystem, session>>

\* cleanup_environment clearing the devices and leaving the local files
cleanup_environment_devices_only ==
    /\ remote_devices' = [k \in DOMAIN remote_devices |-> NoneRef]
    /\ store(heap, filesystems, remote_devices', device, sftp_client_mock)
    /\ ret' = Ret("cleanup_environment", NoneRef, None, NoneObj)
    /\ UNCHANGED <<device, selected_host, last_connect_kwargs, sftp_client_mock,
                   local_filesystem, session>>

cleanup_environment ==
    /\ remote_devices' = [k \in DOMAIN remote_devices |-> NoneRef]
    /\ local_filesystem' = <<>>
    /\ store(heap, filesystems, remote_devices', device, sftp_client_mock)
    /\ ret' = Ret("cleanup_environment", NoneRef, None, NoneObj)
    /\ UNCHANGED <<device, selected_host, last_connect_kwargs, sftp_client_mock,
                   session>>

-----------------------------------------------------------------------------
(* SSHClientMock *)

\* connect_raises checking the credentials before the configured failure
connect_raises_auth_first(dev, username, password) ==
    IF authenticate(dev, username, password) = FALSE
    THEN "AuthenticationException"
    ELSE IF dev.connection_failure # None THEN dev.connection_failure
         ELSE None

\* connect_raises without the check of the configured failure
connect_raises_auth_only(dev, username, password) ==
    IF authenticate(dev, username, password) = FALSE
    THEN "AuthenticationException"
    ELSE None

\* the exception connect raises once it holds the device, None when it goes on
connect_raises(dev, username, password) ==
    IF dev.connection_failure # None THEN dev.connection_failure
    ELSE IF authenticate(dev, username, password) = FALSE
         THEN "AuthenticationException"
         ELSE None

\* connect with one history shared by all devices: clear empties every one
connect_clears_every_history(c, hostname, port, username, password, kwargs) ==
    LET key == host_key(hostname, port)
        id == get_remote_device(key)
        dv == [device EXCEPT ![c] = id]
    IN
    /\ id # NoneRef
    /\ selected_host' = [selected_host EXCEPT ![c] = key]
    /\ device' = dv
    /\ ret' = Ret("connect", c, connect_raises(heap[id], username, password), NoneObj)
    /\ store([d \in DevIds |-> IF heap[d] = NoDev THEN NoDev ELSE clear(heap[d])],
             filesystems, remote_devices, dv, sftp_client_mock)
    /\ UNCHANGED <<remote_devices, sftp_client_mock, local_filesystem,
                   last_connect_kwargs, session>>

\* connect storing the options and clearing the history before its checks
connect_clears_before_checks(c, hostname, port, username, password, kwargs) ==
    LET key == host_key(hostname, port)
        id == get_remote_device(key)
        dv == [device EXCEPT ![c] = id]
    IN
    /\ id # NoneRef
    /\ selected_host' = [selected_host EXCEPT ![c] = key]
    /\ device' = dv
    /\ last_connect_kwargs' = [last_connect_kwargs EXCEPT ![c] = kwargs]
    /\ store([heap EXCEPT ![id] = clear(@)], filesystems, remote_devices, dv,
             sftp_client_mock)
    /\ ret' = Ret("connect", c, connect_raises(heap[id], username, password), NoneObj)
    /\ session' = [session EXCEPT ![c] =
                      IF ret'.exc = None THEN "connected" ELSE @]
    /\ UNCHANGED <<remote_devices, sftp_client_mock, local_filesystem>>

connect(c, hostname, port, username, password, kwargs) ==
    LET key == host_key(hostname, port)
        id == get_remote_device(key)
    IN
    /\ selected_host' = [selected_host EXCEPT ![c] = key]
    /\ IF id = NoneRef
       THEN /\ ret' = Ret("connect", c, "BadSetupError", NoneObj)
            /\ UNCHANGED <<remote_devices, heap, filesystems, device,
                           last_connect_kwargs, sftp_client_mock, local_filesystem,
                           session>>
       ELSE LET dv == [device EXCEPT ![c] = id]
                exc == connect_raises(heap[id], username, password)
            IN
            /\ device' = dv
            /\ ret' = Ret("connect", c, exc, NoneObj)
            /\ IF exc # None
               THEN /\ store(heap, filesystems, remote_devices, dv, sftp_client_mock)
                    /\ UNCHANGED <<last_connect_kwargs, session>>
               ELSE /\ last_connect_kwargs' = [last_connect_kwargs EXCEPT ![c] = kwargs]
                    /\ session' = [session EXCEPT ![c] = "connected"]
                    /\ store([heap EXCEPT ![id] = clear(@)], filesystems,
                             remote_devices, dv, sftp_client_mock)
            /\ UNCHANGED <<remote_devices, sftp_client_mock, local_filesystem>>

\* run_command recording the command only once its response is found, after
\* the response was called
run_command_append_late(dev, command) ==
    LET response == resolve(dev.responses, command) IN
    [dev |-> IF response = NoneObj THEN dev ELSE add_command_to_history(dev, command),
     exc |-> IF response = NoneObj THEN "NotImplementedError" ELSE None,
     val |-> IF response = NoneObj THEN NoneObj
             ELSE call_response(response, dev.command_history, command),
     called |-> IF response = NoneObj THEN <<>>
                ELSE callback_calls(response, command)]

\* exec_command once the client holds a device: the device with the command
\* in its history, and what the call raises or returns
run_command(dev, command) ==
    LET appended == add_command_to_history(dev, command)
        response == resolve(appended.responses, command)
    IN [dev |-> appended,
        exc |-> IF response = NoneObj THEN "NotImplementedError" ELSE None,
        val |-> IF response = NoneObj THEN NoneObj
                ELSE call_response(response, appended.command_history, command),
        called |-> IF response = NoneObj THEN <<>>
                   ELSE callback_calls(response, command)]

exec_command(c, command) ==
    IF selected_host[c] = Unset
    THEN \* the attribute selected_host does not exist before the first connect
         /\ ret' = Ret("exec_command", c, "AttributeError", NoneObj)
         /\ UNCHANGED <<remote_devices, heap, filesystems, device, selected_host,
                        last_connect_kwargs, sftp_client_mock, local_filesystem,
                        session>>
    ELSE IF selected_host[c] = None
    THEN /\ ret' = Ret("exec_command", c, "NoValidConnectionsError", NoneObj)
         /\ UNCHANGED <<remote_devices, heap, filesystems, device, selected_host,
                        last_connect_kwargs, sftp_client_mock, local_filesystem,
                        session>>
    ELSE IF device[c] = NoneRef
    THEN \* None has no add_command_to_history
         /\ ret' = Ret("exec_command", c, "AttributeError", NoneObj)
         /\ UNCHANGED <<remote_devices, heap, filesystems, device, selected_host,
                        last_connect_kwargs, sftp_client_mock, local_filesystem,
                        session>>
    ELSE LET id == device[c]
             run == run_command(heap[id], command)
         IN
         /\ Len(heap[id].command_history) < MaxHist
         /\ heap' = [heap EXCEPT ![id] = run.dev]
         /\ ret' = Ret("exec_command", c, run.exc, run.val) @@ [called |-> run.called]
         /\ UNCHANGED <<remote_devices, filesystems, device, selected_host,
                        last_connect_kwargs, sftp_client_mock, local_filesystem,
                        session>>

\* SFTPClientMock(device.filesystem, device.local_filesystem): the sub-client
\* holds the two filesystems it was made with
SFTPClientMock(filesystem, local) ==
    [filesystem |-> filesystem, local_filesystem |-> local]

open_sftp(c) ==
    IF device[c] = NoneRef
    THEN /\ ret' = Ret("open_sftp", c, "NoValidConnectionsError", NoneObj)
         /\ UNCHANGED <<remote_devices, heap, filesystems, device, selected_host,
                        last_connect_kwargs, sftp_client_mock, local_filesystem,
                        session>>
    ELSE /\ sftp_client_mock' =
               IF sftp_client_mock[c] = NoneObj
               THEN [sftp_client_mock EXCEPT ![c] =
                        SFTPClientMock(heap[device[c]].filesystem,
                                       heap[device[c]].local_filesystem)]
               ELSE sftp_client_mock
         /\ ret' = Ret("open_sftp", c, None, sftp_client_mock'[c])
         /\ UNCHANGED <<remote_devices, heap, filesystems, device, selected_host,
                        last_connect_kwargs, local_filesystem, session>>

close(c) ==
    /\ device' = [device EXCEPT ![c] = NoneRef]
    /\ store(heap, filesystems, remote_devices, device', sftp_client_mock)
    /\ session' = [session EXCEPT ![c] = "closed"]
    /\ ret' = Ret("close", c, None, NoneObj)
    /\ UNCHANGED <<remote_devices, selected_host, last_connect_kwargs,
                   sftp_client_mock, local_filesystem>>

-----------------------------------------------------------------------------
(* The sessions of a test run: registrations, cleanups and client calls *)

Static(key) == SSHCommandMock(<<>>, key, <<>>)

\* re(s) answers with the device's history; ls is left without a response
TableHistory == <<Entry(KeyReS, SSHCommandFunctionMock("history"))>>
\* re(l) is registered before ls and matches it too
TableLs == <<Entry(KeyReL, Static(KeyReL)), Entry(KeyLs, Static(KeyLs))>>

Init ==
    /\ remote_devices = [k \in HostKeys |-> NoneRef]
    /\ heap = [id \in DevIds |-> NoDev]
    /\ filesystems = [id \in DevIds |-> NoFs]
    /\ local_filesystem = <<>>
    /\ device = [c \in Clients |-> NoneRef]
    /\ selected_host = [c \in Clients |-> Unset]
    /\ last_connect_kwargs = [c \in Clients |-> Unset]
    /\ sftp_client_mock = [c \in Clients |-> NoneObj]
    /\ session = [c \in Clients |-> "new"]
    /\ ret = Ret("init", NoneRef, None, NoneObj)

\* the calls a test makes, with their arguments drawn from the given sets
Registrations(hosts, tables, credentials, failures) ==
    \E host \in hosts, port \in Ports, responses \in tables,
       cred \in credentials, failure \in failures :
       add_responses_for_host(host, port, responses, cred[1], cred[2], failure)

Connects(clients, hosts, supplied, options) ==
    \E c \in clients, host \in hosts, port \in Ports,
       cred \in supplied, kwargs \in options :
       connect(c, host, port, cred[1], cred[2], kwargs)

Commands(clients, commands) ==
    \E c \in clients, command \in commands : exec_command(c, command)

\* one client against one host: sessions, histories, re-registrations
Next ==
    \/ Registrations({"h1"}, {TableHistory}, {<<None, None>>, <<"u", "p">>}, Failures)
    \/ cleanup_environment
    \/ Connects({1}, {"h1"}, {<<"u", "p">>, <<"u", "x">>}, Kwargs)
    \/ Commands({1}, {CmdLs, CmdSl})
    \/ open_sftp(1)
    \/ close(1)

Spec == Init /\ [][Next]_vars

-----------------------------------------------------------------------------
(* Authentication: one host registered with every kind of credentials and  *)
(* failure, connect called with every username and password                 *)

DeviceCredentials == {<<None, None>>, <<"u", "p">>, <<"u", None>>, <<None, "p">>}
SuppliedCredentials == Usernames \X Passwords

NextAuth ==
    \/ Registrations({"h1"}, {TableLs}, DeviceCredentials, Failures)
    \/ Connects({1}, {"h1"}, SuppliedCredentials, {"none"})
    \/ Commands({1}, {CmdLs})
    \/ close(1)

SpecAuth == Init /\ [][NextAuth]_vars

has_credentials(dev) == ~(dev.username = None /\ dev.password = None)

C2_OpenAccessAlwaysConnects ==
    [][\A c \in Clients, host \in Hosts, port \in Ports,
          username \in Usernames, password \in Passwords, kwargs \in Kwargs :
          LET id == remote_devices[host_key(host, port)] IN
          (/\ ret'.op = "connect"
           /\ id # NoneRef
           /\ ~has_credentials(heap[id])
           /\ heap[id].connection_failure = None
           /\ connect(c, host, port, username, password, kwargs))
          => /\ ret'.exc = None
             /\ session'[c] = "connected"
             /\ device'[c] = id]_vars

\* a connect to a device without credentials and without failure has succeeded
C2_Witness ==
    /\ ret.op = "connect"
    /\ ret.exc = None
    /\ session[ret.client] = "connected"
    /\ ~has_credentials(heap[device[ret.client]])
    /\ heap[device[ret.client]].connection_failure = None

\* C3: every connect to a device registered with a connection failure raises
\* that failure, whatever the credentials it is given, and no call other than
\* a new registration of the key changes the failure of the registered device.
C3_FailureAlwaysRaised ==
    [][/\ \A c \in Clients, host \in Hosts, port \in Ports,
             username \in Usernames, password \in Passwords, kwargs \in Kwargs :
             LET id == remote_devices[host_key(host, port)] IN
             (/\ ret'.op = "connect"
              /\ id # NoneRef
              /\ heap[id].connection_failure # None
              /\ connect(c, host, port, username, password, kwargs))
             => /\ ret'.exc = heap[id].connection_failure
                /\ session'[c] = session[c]
       /\ \A k \in HostKeys :
             (remote_devices[k] # NoneRef /\ remote_devices'[k] = remote_devices[k])
             => heap'[remote_devices[k]].connection_failure
                   = heap[remote_devices[k]].connection_failure]_vars

\* a connect to a device with credentials and a failure raised the failure
C3_Witness ==
    /\ ret.op = "connect"
    /\ ret.exc = "TimeoutError"
    /\ device[ret.client] # NoneRef
    /\ has_credentials(heap[device[ret.client]])
    /\ heap[device[ret.client]].connection_failure = "TimeoutError"
    /\ heap[device[ret.client]].command_history # <<>>

-----------------------------------------------------------------------------
(* Resolution: a client connected to a device whose response table is any  *)
(* sequence of distinct keys, executing commands                            *)

ResolverKeys ==
    {KeyLs, KeyReL, KeyReDotS, KeyReS, KeyReLStar, KeyOpen, KeyClose, KeyEmpty}

ResolverCommands == {CmdLs, CmdL, CmdSl, CmdRe, KeyClose}

\* the dict {key: SSHCommandMock('', key, '') for key in keys}
TableOf(keys) == [i \in 1..Len(keys) |-> Entry(keys[i], Static(keys[i]))]

AllTables ==
    {TableOf(keys) : keys \in
        {ks \in UNION {[1..n -> ResolverKeys] : n \in 0..MaxTable} :
            \A i, j \in 1..Len(ks) : i # j => ks[i] # ks[j]}}

\* after add_responses_for_host("h1", 22, table) and connect("h1", 22)
InitResolve ==
    \E table \in AllTables :
        /\ remote_devices =
              [k \in HostKeys |-> IF k = host_key("h1", 22) THEN 1 ELSE NoneRef]
        /\ heap = [id \in DevIds |->
              IF id = 1
              THEN with_connection_failure(
                      MockRemoteDevice("h1", 22, table, None, None, 1), None)
              ELSE NoDev]
        /\ filesystems = [id \in DevIds |-> IF id = 1 THEN <<>> ELSE NoFs]
        /\ local_filesystem = <<>>
        /\ device = [c \in Clients |-> IF c = 1 THEN 1 ELSE NoneRef]
        /\ selected_host =
              [c \in Clients |-> IF c = 1 THEN host_key("h1", 22) ELSE Unset]
        /\ last_connect_kwargs = [c \in Clients |-> IF c = 1 THEN "none" ELSE Unset]
        /\ sftp_client_mock = [c \in Clients |-> NoneObj]
        /\ session = [c \in Clients |-> IF c = 1 THEN "connected" ELSE "new"]
        /\ ret = Ret("connect", 1, None, NoneObj)

NextResolve ==
    \/ Commands({1}, ResolverCommands)
    \/ Connects({1}, {"h1"}, {<<None, None>>}, {"none"})

SpecResolve == InitResolve /\ [][NextResolve]_vars

has_key(responses, key) == \E i \in 1..Len(responses) : responses[i].key = key

\* the key has the form re(<pattern>) and <pattern> matches the command
pattern_matches(key, command) ==
    /\ startswith(key, <<"r", "e", "(">>)
    /\ endswith(key, <<")">>)
    /\ re_match(slice_3_m1(key), command)

streams(response) == <<response.stdin, response.stdout, response.stderr>>

\* the command of the last exec_command of a client that holds a device
last_command(c) ==
    heap[device[c]].command_history[Len(heap[device[c]].command_history)]

\* C4: when the command is an exact key of the device's response table,
\* exec_command returns the streams of the entry under that key, also when
\* re(<pattern>) keys earlier in the table match the command.
C4_ExactKeyWins ==
    [][\A c \in Clients, command \in ResolverCommands :
          (/\ ret'.op = "exec_command"
           /\ device[c] # NoneRef
           /\ has_key(heap[device[c]].responses, command)
           /\ exec_command(c, command))
          => /\ ret'.exc = None
             /\ \E i \in 1..Len(heap[device[c]].responses) :
                   /\ heap[device[c]].responses[i].key = command
                   /\ ret'.val = streams(heap[device[c]].responses[i].response)]_vars

\* the last command was an exact key that had a matching pattern key before
\* it, and the exact key's entry answered
C4_Witness ==
    /\ ret.op = "exec_command"
    /\ ret.exc = None
    /\ LET responses == heap[device[ret.client]].responses
           command == last_command(ret.client)
       IN \E i, j \in 1..Len(responses) :
             /\ i < j
             /\ pattern_matches(responses[i].key, command)
             /\ responses[j].key = command
             /\ ret.val = streams(responses[j].response)

\* C5: when the command is not an exact key and some re(<pattern>) key matches
\* it, exec_command returns the streams of the first such key in insertion
\* order of the table.
C5_FirstPatternWins ==
    [][\A c \in Clients, command \in ResolverCommands :
          (/\ ret'.op = "exec_command"
           /\ device[c] # NoneRef
           /\ ~has_key(heap[device[c]].responses, command)
           /\ \E i \in 1..Len(heap[device[c]].responses) :
                 pattern_matches(heap[device[c]].responses[i].key, command)
           /\ exec_command(c, command))
          => /\ ret'.exc = None
             /\ \E i \in 1..Len(heap[device[c]].responses) :
                   /\ pattern_matches(heap[device[c]].responses[i].key, command)
                   /\ \A j \in 1..(i - 1) :
                         ~pattern_matches(heap[device[c]].responses[j].key, command)
                   /\ ret'.val = streams(heap[device[c]].responses[i].response)]_vars

\* the last command was no key, two pattern keys matched it and the earlier
\* one answered
C5_Witness ==
    /\ ret.op = "exec_command"
    /\ ret.exc = None
    /\ LET responses == heap[device[ret.client]].responses
           command == last_command(ret.client)
       IN /\ ~has_key(responses, command)
          /\ \E i, j \in 1..Len(responses) :
                /\ i < j
                /\ pattern_matches(responses[i].key, command)
                /\ pattern_matches(responses[j].key, command)
                /\ ret.val = streams(responses[i].response)

\* C6: exec_command on a client that holds a device raises
\* NotImplementedError exactly when the command is no key of the response
\* table and no re(<pattern>) key matches it; otherwise it returns three
\* streams.
C6_UnresolvedIffNoMatch ==
    [][\A c \in Clients, command \in ResolverCommands :
          (/\ ret'.op = "exec_command"
           /\ device[c] # NoneRef
           /\ selected_host[c] # Unset
           /\ exec_command(c, command))
          => LET responses == heap[device[c]].responses
                 unmatched ==
                    /\ ~has_key(responses, command)
                    /\ \A i \in 1..Len(responses) :
                          ~pattern_matches(responses[i].key, command)
             IN /\ (ret'.exc = "NotImplementedError") <=> unmatched
                /\ ~unmatched => (ret'.exc = None /\ Len(ret'.val) = 3)]_vars

\* a command was left unresolved by a table that holds a key starting with
\* re( without being a pattern key
C6_Witness ==
    /\ ret.op = "exec_command"
    /\ ret.exc = "NotImplementedError"
    /\ has_key(heap[device[ret.client]].responses, KeyOpen)

\* the key is re(<pattern>) with a pattern of literal characters only
literal_pattern(key) ==
    /\ startswith(key, <<"r", "e", "(">>)
    /\ endswith(key, <<")">>)
    /\ \A i \in 4..(Len(key) - 1) : key[i] \notin {".", "*"}

\* the key is no pattern entry
plain_key(key) ==
    ~(startswith(key, <<"r", "e", "(">>) /\ endswith(key, <<")">>))

\* C26: for a command that is no exact key, a key re(<pattern>) whose literal
\* pattern is a proper prefix of the command selects its entry when no entry
\* before it matches; and when every pattern of the table is literal and none
\* is a prefix of the command the command is unresolved, also when a pattern
\* occurs later in the command
C26_PatternMatchesAtStart ==
    [][\A c \in Clients, command \in ResolverCommands :
          (/\ ret'.op = "exec_command"
           /\ device[c] # NoneRef
           /\ ~has_key(heap[device[c]].responses, command)
           /\ exec_command(c, command))
          => LET responses == heap[device[c]].responses
                 misses(i) ==
                    \/ plain_key(responses[i].key)
                    \/ /\ literal_pattern(responses[i].key)
                       /\ ~startswith(command, slice_3_m1(responses[i].key))
             IN /\ \A i \in 1..Len(responses) :
                      /\ literal_pattern(responses[i].key)
                      /\ startswith(command, slice_3_m1(responses[i].key))
                      /\ Len(slice_3_m1(responses[i].key)) < Len(command)
                      /\ \A j \in 1..(i - 1) : misses(j)
                      => /\ ret'.exc = None
                         /\ ret'.val = streams(responses[i].response)
                /\ (\A i \in 1..Len(responses) : misses(i))
                      => ret'.exc = "NotImplementedError"]_vars

\* ls was answered by the entry of re(l), registered after re(s), whose
\* pattern occurs in ls without starting it
C26_Witness ==
    /\ ret.op = "exec_command"
    /\ ret.exc = None
    /\ LET responses == heap[device[ret.client]].responses IN
       /\ Len(responses) = 2
       /\ responses[1].key = KeyReS
       /\ responses[2].key = KeyReL
       /\ last_command(ret.client) = CmdLs
       /\ contains(CmdLs, slice_3_m1(KeyReS))
       /\ ret.val = streams(responses[2].response)

-----------------------------------------------------------------------------
(* Sessions *)

SessionCommands == {CmdLs, CmdSl}

\* C7: every exec_command of a client that holds a device appends its command
\* to that device's history, also when it then raises NotImplementedError, and
\* the append comes first: a callback response that reads the history finds
\* the command at its end.
C7_HistoryAppendedFirst ==
    [][\A c \in Clients, command \in SessionCommands :
          (/\ ret'.op = "exec_command"
           /\ device[c] # NoneRef
           /\ selected_host[c] # Unset
           /\ exec_command(c, command))
          => LET dev == heap[device[c]]
                 response == resolve(dev.responses, command)
             IN /\ heap'[device[c]].command_history
                      = Append(dev.command_history, command)
                /\ ret'.exc \in {None, "NotImplementedError"}
                /\ (response # NoneObj /\ response.kind = "callback")
                      => ret'.val =
                            <<BytesIO(encode(<<>>)),
                              BytesIO(encode(
                                 join_lines(Append(dev.command_history, command)))),
                              BytesIO(encode(<<>>))>>]_vars

\* a resolved command and then an unresolved one are both in the history, in
\* call order
C7_Witness ==
    /\ ret.op = "exec_command"
    /\ ret.exc = "NotImplementedError"
    /\ heap[device[ret.client]].command_history = <<CmdSl, CmdLs>>

\* C8: after a connect that succeeds the client holds the registered device,
\* that device's history is empty and the client remembers the keyword
\* options of this connect.
C8_ConnectClearsHistory ==
    [][\A c \in Clients, host \in Hosts, port \in Ports,
          username \in Usernames, password \in Passwords, kwargs \in Kwargs :
          (/\ ret'.op = "connect"
           /\ ret'.exc = None
           /\ connect(c, host, port, username, password, kwargs))
          => /\ device'[c] = remote_devices[host_key(host, port)]
             /\ device'[c] # NoneRef
             /\ heap'[device'[c]].command_history = <<>>
             /\ last_connect_kwargs'[c] = kwargs]_vars

\* a connect has succeeded with the option banner_timeout
C8_Witness ==
    /\ ret.op = "connect"
    /\ ret.exc = None
    /\ heap[device[ret.client]].command_history = <<>>
    /\ last_connect_kwargs[ret.client] = "banner_timeout"

\* C9 as claimed: exec_command on a client on which connect was never called
\* raises NoValidConnectionsError and no history changes.
C9_NeverConnectedRaisesNoValidConnections ==
    [][\A c \in Clients, command \in SessionCommands :
          (/\ ret'.op = "exec_command"
           /\ selected_host[c] = Unset
           /\ exec_command(c, command))
          => /\ ret'.exc = "NoValidConnectionsError"
             /\ heap' = heap]_vars

\* C10 as claimed: from close() on, until a connect of the client succeeds,
\* every exec_command and open_sftp of the client raises and changes no
\* device.
C10_ClosedClientFails ==
    [][\A c \in Clients :
          (/\ session[c] = "closed"
           /\ ret'.op \in {"exec_command", "open_sftp"}
           /\ \/ \E command \in SessionCommands : exec_command(c, command)
              \/ open_sftp(c))
          => /\ ret'.exc # None
             /\ heap' = heap
             /\ filesystems' = filesystems]_vars

-----------------------------------------------------------------------------
(* The registry *)

\* the registry holds the device under one of its keys
registered(id) == \E k \in DOMAIN remote_devices : remote_devices[k] = id

\* C11 as claimed: a client operates only on a device the registry holds;
\* once cleanup_environment (or a new registration of the key) has removed the
\* device a client connected to, every exec_command and open_sftp of that
\* client raises and changes no device and no sub-client.
C11_RemovedDeviceUnreachable ==
    [][\A c \in Clients :
          (/\ ret'.op \in {"exec_command", "open_sftp"}
           /\ device[c] # NoneRef
           /\ ~registered(device[c])
           /\ \/ \E command \in SessionCommands : exec_command(c, command)
              \/ open_sftp(c))
          => /\ ret'.exc # None
             /\ heap' = heap
             /\ sftp_client_mock' = sftp_client_mock]_vars

-----------------------------------------------------------------------------
(* Files.  A filesystem (SFTPFileSystem.file_system, the local               *)
(* LocalFilesystemMock.file_system) is a dict from paths to file objects:   *)
(* a function whose domain is the set of paths that have a file.            *)

Paths == {"/a"}
FileContents == {<<"x">>, <<"y">>}

\* SFTPFileMock() / LocalFileMock() with file_content set
FileMock(file_content) == [file_content |-> file_content]

FileMocks == {FileMock(content) : content \in FileContents}

\* add_file keeping the file that is already at the path
add_file_keeps_first(file_system, path, file_mock) ==
    IF path \in DOMAIN file_system THEN file_system
    ELSE [p \in DOMAIN file_system \cup {path} |->
             IF p = path THEN file_mock ELSE file_system[p]]

add_file(file_system, path, file_mock) ==
    [p \in DOMAIN file_system \cup {path} |->
        IF p = path THEN file_mock ELSE file_system[p]]

remove_file(file_system, path) ==
    [p \in DOMAIN file_system \ {path} |-> file_system[p]]

get_file(file_system, path) == file_system[path]

-----------------------------------------------------------------------------
(* ParamikoMockEnviron: files and history assertions *)

\* a call of the registry that changes nothing but its outcome
registry_outcome(op, exc, val) ==
    /\ ret' = Ret(op, NoneRef, exc, val)
    /\ UNCHANGED <<remote_devices, heap, filesystems, device, selected_host,
                   last_connect_kwargs, sftp_client_mock, local_filesystem,
                   session>>

add_mock_file_for_host(host, port, path, file_mock) ==
    LET id == get_remote_device(host_key(host, port)) IN
    IF id = NoneRef
    THEN registry_outcome("add_mock_file_for_host", "BadSetupError", NoneObj)
    ELSE /\ filesystems' = [filesystems EXCEPT ![heap[id].filesystem] =
                               add_file(@, path, file_mock)]
         /\ ret' = Ret("add_mock_file_for_host", NoneRef, None, NoneObj)
         /\ UNCHANGED <<remote_devices, heap, device, selected_host,
                        last_connect_kwargs, sftp_client_mock, local_filesystem,
                        session>>

\* the path holds a file; what remove_file does for another path is not modelled
remove_mock_file_for_host(host, port, path) ==
    LET id == get_remote_device(host_key(host, port)) IN
    IF id = NoneRef
    THEN registry_outcome("remove_mock_file_for_host", "BadSetupError", NoneObj)
    ELSE /\ path \in DOMAIN filesystems[heap[id].filesystem]
         /\ filesystems' = [filesystems EXCEPT ![heap[id].filesystem] =
                               remove_file(@, path)]
         /\ ret' = Ret("remove_mock_file_for_host", NoneRef, None, NoneObj)
         /\ UNCHANGED <<remote_devices, heap, device, selected_host,
                        last_connect_kwargs, sftp_client_mock, local_filesystem,
                        session>>

\* get_mock_file_for_host answering None for a key without a device
get_mock_file_for_host_returns_none(host, port, path) ==
    LET id == get_remote_device(host_key(host, port)) IN
    IF id = NoneRef
    THEN registry_outcome("get_mock_file_for_host", None, NoneObj)
    ELSE /\ path \in DOMAIN filesystems[heap[id].filesystem]
         /\ registry_outcome("get_mock_file_for_host", None,
                             get_file(filesystems[heap[id].filesystem], path))

\* the path holds a file; what get_file does for another path is not modelled
get_mock_file_for_host(host, port, path) ==
    LET id == get_remote_device(host_key(host, port)) IN
    IF id = NoneRef
    THEN registry_outcome("get_mock_file_for_host", "BadSetupError", NoneObj)
    ELSE /\ path \in DOMAIN filesystems[heap[id].filesystem]
         /\ registry_outcome("get_mock_file_for_host", None,
                             get_file(filesystems[heap[id].filesystem], path))

add_local_file(path, file_mock) ==
    /\ local_filesystem' = add_file(local_filesystem, path, file_mock)
    /\ ret' = Ret("add_local_file", NoneRef, None, NoneObj)
    /\ UNCHANGED <<remote_devices, heap, filesystems, device, selected_host,
                   last_connect_kwargs, sftp_client_mock, session>>

\* command in command_history
\* in_history looking at the last entry only
in_history_last_only(command_history, command) ==
    /\ command_history # <<>>
    /\ command_history[Len(command_history)] = command

in_history(command_history, command) ==
    \E i \in 1..Len(command_history) : command_history[i] = command

assert_command_was_executed(host, port, command) ==
    LET id == get_remote_device(host_key(host, port)) IN
    IF id = NoneRef
    THEN registry_outcome("assert_command_was_executed", "BadSetupError", NoneObj)
    ELSE registry_outcome("assert_command_was_executed",
             IF in_history(heap[id].command_history, command)
             THEN None ELSE "AssertionError",
             NoneObj)

assert_command_was_not_executed(host, port, command) ==
    LET id == get_remote_device(host_key(host, port)) IN
    IF id = NoneRef
    THEN registry_outcome("assert_command_was_not_executed", "BadSetupError", NoneObj)
    ELSE registry_outcome("assert_command_was_not_executed",
             IF in_history(heap[id].command_history, command)
             THEN "AssertionError" ELSE None,
             NoneObj)

\* command_history[index] of Python: positions 0..n-1, and -n..-1 from the end
assert_command_executed_on_index(host, port, command, index) ==
    LET id == get_remote_device(host_key(host, port)) IN
    IF id = NoneRef
    THEN registry_outcome("assert_command_executed_on_index", "BadSetupError", NoneObj)
    ELSE LET command_history == heap[id].command_history
             n == Len(command_history)
         IN registry_outcome("assert_command_executed_on_index",
                IF index < -n \/ index >= n THEN "IndexError"
                ELSE IF command_history[IF index < 0 THEN n + index + 1
                                         ELSE index + 1] = command
                     THEN None ELSE "AssertionError",
                NoneObj)

-----------------------------------------------------------------------------
(* The calls a test makes on the registry beside its registrations          *)

Indexes == {-1, 0, 1}

RemoteFiles(hosts, files) ==
    \E host \in hosts, port \in Ports, path \in Paths :
       \/ \E file_mock \in files : add_mock_file_for_host(host, port, path, file_mock)
       \/ remove_mock_file_for_host(host, port, path)
       \/ get_mock_file_for_host(host, port, path)

LocalFiles(files) ==
    \E path \in Paths, file_mock \in files : add_local_file(path, file_mock)

Assertions(hosts, commands, indexes) ==
    \E host \in hosts, port \in Ports, command \in commands :
       \/ assert_command_was_executed(host, port, command)
       \/ assert_command_was_not_executed(host, port, command)
       \/ \E index \in indexes :
             assert_command_executed_on_index(host, port, command, index)

\* registrations whose arguments are drawn together: each configuration is
\* <<responses, username, password, connection_failure>>
RegistrationsOf(hosts, configurations) ==
    \E host \in hosts, port \in Ports, conf \in configurations :
       add_responses_for_host(host, port, conf[1], conf[2], conf[3], conf[4])

-----------------------------------------------------------------------------
(* The registry with two hosts: registrations and cleanups of devices that  *)
(* differ in every argument, files, and one client that connects to h1 and  *)
(* executes a command                                                       *)

Configurations ==
    {<<TableLs, "u", "p", None>>, <<TableHistory, None, None, "TimeoutError">>}

NextRegistry ==
    \/ RegistrationsOf(Hosts, Configurations)
    \/ cleanup_environment
    \/ Connects({1}, {"h1"}, {<<"u", "p">>}, {"none"})
    \/ Commands({1}, {CmdLs})
    \/ \E path \in Paths :
          add_mock_file_for_host("h1", 22, path, FileMock(<<"x">>))
    \/ LocalFiles({FileMock(<<"x">>)})

SpecRegistry == Init /\ [][NextRegistry]_vars

-----------------------------------------------------------------------------
(* Lookups: connect, the remote-file helpers and the history assertions on  *)
(* two keys of which only h1 is ever registered                             *)

NextLookup ==
    \/ RegistrationsOf({"h1"}, {<<TableLs, None, None, None>>})
    \/ cleanup_environment
    \/ Connects({1}, Hosts, {<<None, None>>}, {"none"})
    \/ Commands({1}, {CmdLs})
    \/ RemoteFiles(Hosts, {FileMock(<<"x">>)})
    \/ Assertions(Hosts, {CmdLs}, Indexes)

SpecLookup == Init /\ [][NextLookup]_vars

\* the registry holds no device and the local filesystem no file
clean == /\ \A k \in HostKeys : remote_devices[k] = NoneRef
         /\ DOMAIN local_filesystem = {}

\* C12: cleanup_environment leaves the registry without any device and the
\* local filesystem without any file, and on a registry that is already clean
\* it changes nothing; a key without a device stays so until
\* add_responses_for_host registers it, and every connect to such a key raises
\* BadSetupError and leaves the client's session as it was.
C12_CleanupRemovesEverything ==
    [][/\ (ret'.op = "cleanup_environment" /\ cleanup_environment)
             => /\ clean'
                /\ clean => UNCHANGED <<remote_devices, heap, filesystems, device,
                                        selected_host, last_connect_kwargs,
                                        sftp_client_mock, local_filesystem, session>>
       /\ \A k \in HostKeys :
             (remote_devices[k] = NoneRef /\ ret'.op # "add_responses_for_host")
             => remote_devices'[k] = NoneRef
       /\ \A c \in Clients, host \in Hosts, port \in Ports,
             username \in Usernames, password \in Passwords, kwargs \in Kwargs :
             (/\ ret'.op = "connect"
              /\ remote_devices[host_key(host, port)] = NoneRef
              /\ connect(c, host, port, username, password, kwargs))
             => /\ ret'.exc = "BadSetupError"
                /\ device' = device
                /\ session' = session]_vars

\* the registry is clean again and connect has turned down the client that
\* holds the device of h1, registered before, on which it ran a command
C12_Witness ==
    /\ ret.op = "connect"
    /\ ret.exc = "BadSetupError"
    /\ clean
    /\ device[1] # NoneRef
    /\ heap[device[1]].host = "h1"
    /\ heap[device[1]].command_history # <<>>

-----------------------------------------------------------------------------
(* Lookups *)

LookupOps ==
    {"connect", "add_mock_file_for_host", "remove_mock_file_for_host",
     "get_mock_file_for_host", "assert_command_was_executed",
     "assert_command_was_not_executed", "assert_command_executed_on_index"}

\* C13: connect, the three remote-file helpers and the three history
\* assertions, called for a key that has no registered device, raise
\* BadSetupError and leave the registry, the devices and their filesystems
\* unchanged.
C13_UnregisteredLookupRaises ==
    [][\A host \in Hosts, port \in Ports :
          (/\ ret'.op \in LookupOps
           /\ remote_devices[host_key(host, port)] = NoneRef
           /\ \/ \E c \in Clients, username \in Usernames, password \in Passwords,
                    kwargs \in Kwargs :
                    connect(c, host, port, username, password, kwargs)
              \/ \E path \in Paths :
                    \/ \E file_mock \in FileMocks :
                          add_mock_file_for_host(host, port, path, file_mock)
                    \/ remove_mock_file_for_host(host, port, path)
                    \/ get_mock_file_for_host(host, port, path)
              \/ \E command \in SessionCommands :
                    \/ assert_command_was_executed(host, port, command)
                    \/ assert_command_was_not_executed(host, port, command)
                    \/ \E index \in Indexes :
                          assert_command_executed_on_index(host, port, command, index))
          => /\ ret'.exc = "BadSetupError"
             /\ remote_devices' = remote_devices
             /\ heap' = heap
             /\ filesystems' = filesystems]_vars

\* a file helper was turned down for a key without a device while the other
\* key holds a device with a file and a command in its history
C13_Witness ==
    /\ ret.op = "get_mock_file_for_host"
    /\ ret.exc = "BadSetupError"
    /\ remote_devices[host_key("h2", 22)] = NoneRef
    /\ remote_devices[host_key("h1", 22)] # NoneRef
    /\ heap[remote_devices[host_key("h1", 22)]].command_history # <<>>
    /\ DOMAIN filesystems[heap[remote_devices[host_key("h1", 22)]].filesystem] # {}

-----------------------------------------------------------------------------
(* Registrations *)

RegisteredTables == {TableLs, TableHistory}

\* C14: add_responses_for_host returns without raising and leaves under
\* "host:port" a new device that carries exactly the given responses, username,
\* password and connection failure, has an empty history and an empty remote
\* filesystem of its own; the device registered under the key before is no
\* longer registered, and the devices under the other keys, their histories
\* and their files are as they were.
C14_RegistrationReplacesDevice ==
    [][\A host \in Hosts, port \in Ports, responses \in RegisteredTables,
          username \in Usernames, password \in Passwords, failure \in Failures :
          (/\ ret'.op = "add_responses_for_host"
           /\ add_responses_for_host(host, port, responses, username, password, failure))
          => LET key == host_key(host, port)
                 id == remote_devices'[key]
             IN /\ ret'.exc = None
                /\ id # NoneRef
                /\ id # remote_devices[key]
                /\ heap'[id].host = host
                /\ heap'[id].port = port
                /\ heap'[id].responses = responses
                /\ heap'[id].username = username
                /\ heap'[id].password = password
                /\ heap'[id].connection_failure = failure
                /\ heap'[id].command_history = <<>>
                /\ DOMAIN filesystems'[heap'[id].filesystem] = {}
                /\ \A other \in DevIds \ {id} :
                      heap'[other] # NoDev
                      => heap'[other].filesystem # heap'[id].filesystem
                /\ \A k \in HostKeys \ {key} :
                      /\ remote_devices'[k] = remote_devices[k]
                      /\ remote_devices[k] # NoneRef
                         => /\ heap'[remote_devices[k]] = heap[remote_devices[k]]
                            /\ filesystems'[heap[remote_devices[k]].filesystem]
                                  = filesystems[heap[remote_devices[k]].filesystem]]_vars

\* h1 was registered anew while the client holds its former device, which has
\* a command in its history and a file, and h2 holds a device
C14_Witness ==
    /\ ret.op = "add_responses_for_host"
    /\ remote_devices[host_key("h1", 22)] # NoneRef
    /\ remote_devices[host_key("h2", 22)] # NoneRef
    /\ device[1] # NoneRef
    /\ device[1] # remote_devices[host_key("h1", 22)]
    /\ heap[device[1]].command_history # <<>>
    /\ DOMAIN filesystems[heap[device[1]].filesystem] # {}
    /\ heap[remote_devices[host_key("h1", 22)]].command_history = <<>>
    /\ DOMAIN filesystems[heap[remote_devices[host_key("h1", 22)]].filesystem] = {}

-----------------------------------------------------------------------------
(* Responses and their streams *)

ExitStatuses == {0, 1}

\* SSHCommandMock(stdin, stdout, stderr, exit_status=...): __init__ takes no
\* such argument, so the call raises before a response exists
SSHCommandMock_exit_status(stdin, stdout, stderr, exit_status) ==
    registry_outcome("SSHCommandMock", "TypeError", NoneObj)

\* stdin, stdout, stderr = client.exec_command(...) and then
\* stderr.channel.recv_exit_status()
recv_exit_status(c) ==
    /\ ret.op = "exec_command"
    /\ ret.client = c
    /\ ret.exc = None
    /\ LET outcome == recv_exit_status_of(ret.val[3]) IN
       ret' = Ret("recv_exit_status", c, outcome.exc, outcome.val)
    /\ UNCHANGED <<remote_devices, heap, filesystems, device, selected_host,
                   last_connect_kwargs, sftp_client_mock, local_filesystem,
                   session>>

\* string.split(sep): the pieces of string between the separators
RECURSIVE split(_, _)
split(string, sep) ==
    IF \E i \in 1..Len(string) : string[i] = sep
    THEN LET i == CHOOSE i \in 1..Len(string) :
                     /\ string[i] = sep
                     /\ \A j \in 1..(i - 1) : string[j] # sep
         IN <<SubSeq(string, 1, i - 1)>> \o split(SubSeq(string, i + 1, Len(string)), sep)
    ELSE <<string>>

\* sep.join(lines)
RECURSIVE join(_, _)
join(lines, sep) ==
    IF lines = <<>> THEN <<>>
    ELSE IF Len(lines) = 1 THEN lines[1]
    ELSE lines[1] \o <<sep>> \o join(Tail(lines), sep)

\* [x for x in lines if line not in x]
RECURSIVE lines_without(_, _)
lines_without(lines, line) ==
    IF lines = <<>> THEN <<>>
    ELSE IF contains(lines[1], line) THEN lines_without(Tail(lines), line)
    ELSE <<lines[1]>> \o lines_without(Tail(lines), line)

\* the response object under the i-th key of the table registered under key
response_at(key, i) == heap[remote_devices[key]].responses[i].response

is_static(key, i) ==
    /\ remote_devices[key] # NoneRef
    /\ i \in 1..Len(heap[remote_devices[key]].responses)
    /\ response_at(key, i).kind = "static"

\* response.append_to_stdout(new_stdout): self.stdout += new_stdout, where
\* self.stdout is the BytesIO the constructor made, which has no += with a str
append_to_stdout(key, i, new_stdout) ==
    /\ is_static(key, i)
    /\ IF response_at(key, i).stdout.kind = "BytesIO"
       THEN registry_outcome("append_to_stdout", "TypeError", NoneObj)
       ELSE /\ heap' = [heap EXCEPT ![remote_devices[key]].responses[i].response.stdout.value =
                           @ \o new_stdout]
            /\ ret' = Ret("append_to_stdout", NoneRef, None, NoneObj)
            /\ UNCHANGED <<remote_devices, filesystems, device, selected_host,
                           last_connect_kwargs, sftp_client_mock, local_filesystem,
                           session>>

\* response.remove_line_containing(line): self.stdout.split('\n') ..., where
\* self.stdout is a BytesIO, which has no attribute split
remove_line_containing(key, i, line) ==
    /\ is_static(key, i)
    /\ IF response_at(key, i).stdout.kind = "BytesIO"
       THEN registry_outcome("remove_line_containing", "AttributeError", NoneObj)
       ELSE /\ heap' = [heap EXCEPT ![remote_devices[key]].responses[i].response.stdout.value =
                           join(lines_without(split(@, "\n"), line), "\n")]
            /\ ret' = Ret("remove_line_containing", NoneRef, None, NoneObj)
            /\ UNCHANGED <<remote_devices, filesystems, device, selected_host,
                           last_connect_kwargs, sftp_client_mock, local_filesystem,
                           session>>

\* the place in the table of the response exec_command settles on, 0 when
\* there is none
resolved_index(responses, command) ==
    IF has_key(responses, command)
    THEN CHOOSE i \in 1..Len(responses) : responses[i].key = command
    ELSE IF \E i \in 1..Len(responses) : pattern_matches(responses[i].key, command)
    THEN CHOOSE i \in 1..Len(responses) :
            /\ pattern_matches(responses[i].key, command)
            /\ \A j \in 1..(i - 1) : ~pattern_matches(responses[j].key, command)
    ELSE 0

\* stdout.read() on the output stream the client's last exec_command returned.
\* A static response returns the stream objects it keeps, so the read moves
\* the position of the stream in the response of the table; the stream of a
\* callback is the caller's own.
stdout_read(c) ==
    /\ ret.op = "exec_command"
    /\ ret.client = c
    /\ ret.exc = None
    /\ ret' = Ret("read", c, None, read(ret.val[2]))
    /\ LET i == resolved_index(heap[device[c]].responses, last_command(c)) IN
       heap' = IF heap[device[c]].responses[i].response.kind = "static"
               THEN [heap EXCEPT ![device[c]].responses[i].response.stdout.pos =
                        Len(ret.val[2].value)]
               ELSE heap
    /\ UNCHANGED <<remote_devices, filesystems, device, selected_host,
                   last_connect_kwargs, sftp_client_mock, local_filesystem,
                   session>>

\* one host whose table has a static response of two lines under ls and the
\* callbacks status under re(s) and echo under re(l); one client
CmdS == <<"s">>
TwoLines == <<"x", "\n", "y">>

TableStatus ==
    <<Entry(KeyReS, SSHCommandFunctionMock("status")),
      Entry(KeyLs, SSHCommandMock(<<>>, TwoLines, <<"e">>)),
      Entry(KeyReL, SSHCommandFunctionMock("echo"))>>

ResponseCommands == {CmdLs, CmdSl, CmdL, CmdS}
NewStdouts == {<<"x">>, <<"y">>}

Mutations ==
    \E key \in HostKeys, i \in 1..Len(TableStatus), text \in NewStdouts :
       \/ append_to_stdout(key, i, text)
       \/ remove_line_containing(key, i, text)

NextResponses ==
    \/ RegistrationsOf({"h1"}, {<<TableStatus, None, None, None>>})
    \/ Connects({1}, {"h1"}, {<<None, None>>}, {"none"})
    \/ Commands({1}, ResponseCommands)
    \/ recv_exit_status(1)
    \/ stdout_read(1)
    \/ \E exit_status \in ExitStatuses :
          SSHCommandMock_exit_status(<<>>, TwoLines, <<"e">>, exit_status)
    \/ Mutations
    \/ close(1)

SpecResponses == Init /\ [][NextResponses]_vars

\* the response the last exec_command of the client resolved to
last_response(c) == resolve(heap[device[c]].responses, last_command(c))

\* C15 as claimed: a static response is made with an exit status s; after an
\* exec_command that resolved to a static response, recv_exit_status on the
\* channel of the returned error stream returns the configured status, 0
\* when none was given, and the stream still holds the configured stderr.
C15_StaticExitStatus ==
    [][/\ \A exit_status \in ExitStatuses :
             (/\ ret'.op = "SSHCommandMock"
              /\ SSHCommandMock_exit_status(<<>>, TwoLines, <<"e">>, exit_status))
             => ret'.exc = None
       /\ \A c \in Clients :
             (/\ ret'.op = "recv_exit_status"
              /\ last_response(c).kind = "static"
              /\ recv_exit_status(c))
             => /\ ret'.exc = None
                /\ ret'.val = 0
                /\ ret.val[3].value = last_response(c).stderr.value]_vars

\* C16: an exec_command that resolves to a callback response calls the
\* callback once, with the command that was executed, and returns the triple
\* the callback returned for this command and the device's history as it is
\* then; the exit status the callback put on its error stream is the one
\* recv_exit_status returns to the caller.
C16_CallbackCalledOnceWithCommand ==
    [][\A c \in Clients :
          /\ \A command \in ResponseCommands :
                (/\ ret'.op = "exec_command"
                 /\ device[c] # NoneRef
                 /\ selected_host[c] \notin {Unset, None}
                 /\ resolve(heap[device[c]].responses, command).kind = "callback"
                 /\ exec_command(c, command))
                => LET callback == resolve(heap[device[c]].responses, command).callback
                       command_history == Append(heap[device[c]].command_history, command)
                   IN /\ ret'.exc = None
                      /\ ret'.called = <<[callback |-> callback, command |-> command]>>
                      /\ ret'.val = callback_result(callback, command_history, command)
          /\ (/\ ret'.op = "recv_exit_status"
              /\ recv_exit_status(c)
              /\ last_response(c).kind = "callback"
              /\ last_response(c).callback = "status")
             => /\ ret'.exc = None
                /\ ret'.val = IF contains(last_command(c), <<"s", "l">>) THEN 1 ELSE 0]_vars

\* the callback under re(s) was called for s and then for sl, and the caller
\* has retrieved the exit status 1 of the second call
C16_Witness ==
    /\ ret.op = "recv_exit_status"
    /\ ret.exc = None
    /\ ret.val = 1
    /\ heap[device[ret.client]].command_history = <<CmdS, CmdSl>>

\* C17 as claimed: append_to_stdout(x) and remove_line_containing(l) on a
\* static response return without raising; afterwards the response's stdout,
\* which the next exec_command resolving to it returns, is the former stdout
\* followed by x, respectively the former stdout without the lines that
\* contain l.
C17_StaticResponseMutable ==
    [][\A key \in HostKeys, i \in 1..Len(TableStatus), text \in NewStdouts :
          /\ (/\ ret'.op = "append_to_stdout"
              /\ append_to_stdout(key, i, text))
             => /\ ret'.exc = None
                /\ call_response(response_at(key, i)', <<>>, <<>>)[2].value
                      = response_at(key, i).stdout.value \o encode(text)
          /\ (/\ ret'.op = "remove_line_containing"
              /\ remove_line_containing(key, i, text))
             => /\ ret'.exc = None
                /\ call_response(response_at(key, i)', <<>>, <<>>)[2].value
                      = join(lines_without(split(response_at(key, i).stdout.value,
                                                 Ord["\n"]),
                                           encode(text)),
                             Ord["\n"])]_vars

-----------------------------------------------------------------------------
(* The file-transfer sub-client (SFTPClientMock) and the files it opens.   *)
(* The caller uses a file right after it has opened it, so the open file    *)
(* is carried by the outcome of the last call.                              *)

MaxContent == 2     \* characters written to one file

Modes == {"r", "w", "a"}
FileOps == {"sftp_open", "file_write", "file_read"}

\* the file object sftp.open returns: the filesystem and path of its entry,
\* its mode and, as a history, what was written through it
SFTPFileHandle(filesystem, path, mode) ==
    [filesystem |-> filesystem, path |-> path, mode |-> mode, written |-> <<>>]

file_outcome(op, c, exc, val, file) ==
    Ret(op, c, exc, val) @@ [file |-> file]

\* sftp.open(path, mode) on the sub-client open_sftp gave to the client
sftp_open(c, path, mode) ==
    /\ sftp_client_mock[c] # NoneObj
    /\ LET id == sftp_client_mock[c].filesystem
           file == SFTPFileHandle(id, path, mode)
       IN
       IF mode = "w"
       THEN /\ filesystems' = [filesystems EXCEPT ![id] =
                                  add_file(@, path, FileMock(<<>>))]
            /\ ret' = file_outcome("sftp_open", c, None, file, file)
       ELSE IF mode = "r"
       THEN /\ ret' = IF path \in DOMAIN filesystems[id]
                      THEN file_outcome("sftp_open", c, None, file, file)
                      ELSE Ret("sftp_open", c, "FileNotFoundError", NoneObj)
            /\ UNCHANGED filesystems
       ELSE /\ ret' = Ret("sftp_open", c, "UnsupportedModeError", NoneObj)
            /\ UNCHANGED filesystems
    /\ UNCHANGED <<remote_devices, heap, device, selected_host, last_connect_kwargs,
                   sftp_client_mock, local_filesystem, session>>

\* the last call of the client left it with an open file
has_file(c) ==
    /\ ret.op \in FileOps
    /\ ret.client = c
    /\ ret.exc = None

\* file.write(data) writing to a file of its own that never reaches the
\* filesystem
file_write_detached(c, data) ==
    /\ has_file(c)
    /\ ret.file.mode = "w"
    /\ Len(ret.file.written) < MaxContent
    /\ ret' = file_outcome("file_write", c, None, NoneObj,
                           [ret.file EXCEPT !.written = @ \o data])
    /\ UNCHANGED <<remote_devices, heap, filesystems, device, selected_host,
                   last_connect_kwargs, sftp_client_mock, local_filesystem, session>>

\* file.write(data): appends to the content of the entry, at once
file_write(c, data) ==
    /\ has_file(c)
    /\ ret.file.mode = "w"
    /\ Len(ret.file.written) < MaxContent
    /\ filesystems' = [filesystems EXCEPT
                          ![ret.file.filesystem][ret.file.path].file_content = @ \o data]
    /\ ret' = file_outcome("file_write", c, None, NoneObj,
                           [ret.file EXCEPT !.written = @ \o data])
    /\ UNCHANGED <<remote_devices, heap, device, selected_host, last_connect_kwargs,
                   sftp_client_mock, local_filesystem, session>>

\* file.read(): the whole content of the entry
file_read(c) ==
    /\ has_file(c)
    /\ ret.file.mode = "r"
    /\ ret' = file_outcome("file_read", c, None,
                 get_file(filesystems[ret.file.filesystem], ret.file.path).file_content,
                 ret.file)
    /\ UNCHANGED <<remote_devices, heap, filesystems, device, selected_host,
                   last_connect_kwargs, sftp_client_mock, local_filesystem, session>>

\* file.close()
file_close(c) ==
    /\ has_file(c)
    /\ ret' = Ret("file_close", c, None, NoneObj)
    /\ UNCHANGED <<remote_devices, heap, filesystems, device, selected_host,
                   last_connect_kwargs, sftp_client_mock, local_filesystem, session>>

\* one host that is registered again and again, one client with its
\* sub-client, and the remote-file helpers of the registry
FileCalls(c) ==
    \/ \E path \in Paths, mode \in Modes : sftp_open(c, path, mode)
    \/ \E data \in FileContents : file_write(c, data)
    \/ file_read(c)
    \/ file_close(c)

NextSftp ==
    \/ RegistrationsOf({"h1"}, {<<TableLs, None, None, None>>})
    \/ Connects({1}, {"h1"}, {<<None, None>>}, {"none"})
    \/ open_sftp(1)
    \/ close(1)
    \/ FileCalls(1)
    \/ RemoteFiles({"h1"}, FileMocks)

SpecSftp == Init /\ [][NextSftp]_vars

\* C18 as claimed: open_sftp on a client without a device raises
\* NoValidConnectionsError and makes no sub-client; on a connected client it
\* returns the client's sub-client, the one an earlier call returned if there
\* was one, and that sub-client is bound to the remote filesystem of the
\* device the client is connected to and to the registry's local filesystem.
C18_SubClientOfConnectedDevice ==
    [][\A c \in Clients :
          (/\ ret'.op = "open_sftp"
           /\ open_sftp(c))
          => IF device[c] = NoneRef
             THEN /\ ret'.exc = "NoValidConnectionsError"
                  /\ sftp_client_mock' = sftp_client_mock
             ELSE session[c] = "connected"
                  => /\ ret'.exc = None
                     /\ ret'.val = sftp_client_mock'[c]
                     /\ sftp_client_mock[c] # NoneObj => ret'.val = sftp_client_mock[c]
                     /\ ret'.val.local_filesystem = "local_filesystem"
                     /\ ret'.val.filesystem = heap[device[c]].filesystem]_vars

\* the device the registry holds under the key of the client's device
registry_device(c) ==
    remote_devices[host_key(heap[device[c]].host, heap[device[c]].port)]

\* what get_mock_file_for_host returns for the key of the client's device:
\* the file at the path, None when there is no device or no file
registry_file(c, path) ==
    IF registry_device(c) = NoneRef THEN NoneObj
    ELSE IF path \notin DOMAIN filesystems[heap[registry_device(c)].filesystem]
    THEN NoneObj
    ELSE get_file(filesystems[heap[registry_device(c)].filesystem], path)

\* C19 as claimed: what a connected client has written to a path through a
\* file of its sub-client is the content of the file get_mock_file_for_host
\* returns for that path, and what it reads from a path through its
\* sub-client is the content of the file the registry's helpers hold at that
\* path.
C19_HelpersAndSubClientShareFiles ==
    [][\A c \in Clients :
          /\ \A data \in FileContents :
                (/\ ret'.op = "file_write"
                 /\ session[c] = "connected"
                 /\ file_write(c, data))
                => /\ registry_file(c, ret.file.path)' # NoneObj
                   /\ registry_file(c, ret.file.path)'.file_content = ret'.file.written
          /\ (/\ ret'.op = "file_read"
              /\ session[c] = "connected"
              /\ file_read(c))
             => /\ registry_file(c, ret.file.path) # NoneObj
                /\ registry_file(c, ret.file.path).file_content = ret'.val]_vars

-----------------------------------------------------------------------------
(* Connection failures: ConnectionFailureConfig and the setup_..._failure  *)
(* helpers of the registry.  An exception is known by its type; the DNS     *)
(* error is socket.gaierror with errno -2.                                  *)

dns_failure == "socket.gaierror(-2)"
timeout_failure == "TimeoutError"
authentication_failure == "AuthenticationException"
connection_refused == "ConnectionRefusedError"

\* ConnectionFailureConfig.custom_exception(exception) is the exception itself
custom_exception(exception) == exception

CustomErrors == {"ValueError", "KeyError"}

\* each helper registers the host, at port 22 unless it is given a port, with
\* no responses, no credentials and its failure
setup_dns_failure(host) ==
    add_responses_for_host(host, 22, <<>>, None, None, dns_failure)

setup_timeout_failure(host) ==
    add_responses_for_host(host, 22, <<>>, None, None, timeout_failure)

setup_authentication_failure(host) ==
    add_responses_for_host(host, 22, <<>>, None, None, authentication_failure)

setup_connection_refused(host) ==
    add_responses_for_host(host, 22, <<>>, None, None, connection_refused)

setup_custom_failure(host, port, exception) ==
    add_responses_for_host(host, port, <<>>, None, None, custom_exception(exception))

\* the calls of the helpers for the given hosts
Setups(hosts) ==
    \E host \in hosts :
       \/ setup_dns_failure(host)
       \/ setup_timeout_failure(host)
       \/ setup_authentication_failure(host)
       \/ setup_connection_refused(host)
       \/ \E port \in Ports, exception \in CustomErrors :
             setup_custom_failure(host, port, exception)

\* one host that is registered as a working device with credentials and set
\* up to fail in every way, and one client that connects with and without
\* the credentials
NextFailures ==
    \/ RegistrationsOf({"h1"}, {<<TableLs, "u", "p", None>>})
    \/ Setups({"h1"})
    \/ Connects({1}, {"h1"}, {<<"u", "p">>, <<None, None>>}, {"none"})
    \/ Commands({1}, {CmdLs})

SpecFailures == Init /\ [][NextFailures]_vars

\* the key holds a device that has no responses and the failure
fails_with(host, port, failure) ==
    /\ remote_devices[host_key(host, port)] # NoneRef
    /\ heap[remote_devices[host_key(host, port)]].responses = <<>>
    /\ heap[remote_devices[host_key(host, port)]].connection_failure = failure

SetupFailures ==
    {dns_failure, timeout_failure, authentication_failure, connection_refused}
       \cup CustomErrors

\* C20: setup_dns_failure(h), setup_timeout_failure(h),
\* setup_authentication_failure(h) and setup_connection_refused(h) leave under
\* "h:22" a device without responses whose failure is socket.gaierror with
\* errno -2, TimeoutError, AuthenticationException and ConnectionRefusedError
\* respectively, and setup_custom_failure(h, p, e) leaves under "h:p" a device
\* without responses whose failure is e; every connect to a device that has
\* one of these failures raises that failure, whatever the credentials.
C20_SetupFailureRaisedByConnect ==
    [][/\ \A host \in Hosts :
             ret'.op = "add_responses_for_host"
             => /\ setup_dns_failure(host) => fails_with(host, 22, dns_failure)'
                /\ setup_timeout_failure(host) => fails_with(host, 22, timeout_failure)'
                /\ setup_authentication_failure(host)
                      => fails_with(host, 22, authentication_failure)'
                /\ setup_connection_refused(host)
                      => fails_with(host, 22, connection_refused)'
                /\ \A port \in Ports, exception \in CustomErrors :
                      setup_custom_failure(host, port, exception)
                      => fails_with(host, port, exception)'
       /\ \A c \in Clients, host \in Hosts, port \in Ports,
             username \in Usernames, password \in Passwords, kwargs \in Kwargs :
             (/\ ret'.op = "connect"
              /\ \E failure \in SetupFailures : fails_with(host, port, failure)
              /\ connect(c, host, port, username, password, kwargs))
             => /\ ret'.exc = heap[remote_devices[host_key(host, port)]].connection_failure
                /\ ret'.exc \in SetupFailures
                /\ session'[c] = session[c]]_vars

\* connect has raised the DNS error of h1, which setup_dns_failure registered
\* in the place of a device with responses that the client was connected to
C20_Witness ==
    /\ ret.op = "connect"
    /\ ret.exc = dns_failure
    /\ session[1] = "connected"
    /\ fails_with("h1", 22, dns_failure)
    /\ device[1] = remote_devices[host_key("h1", 22)]

-----------------------------------------------------------------------------
(* Isolation: two hosts registered with credentials or with a failure, one  *)
(* client connecting to either and running commands                         *)

NextIsolation ==
    \/ RegistrationsOf(Hosts, Configurations)
    \/ Connects({1}, Hosts, {<<"u", "p">>, <<"u", "x">>}, {"none"})
    \/ Commands({1}, {CmdLs})

SpecIsolation == Init /\ [][NextIsolation]_vars

\* the registered devices other than the one with the given id keep their
\* key, credentials, responses, failure configuration and history
others_unchanged(id) ==
    \A k \in HostKeys :
        remote_devices[k] # NoneRef /\ remote_devices[k] # id
        => /\ remote_devices'[k] = remote_devices[k]
           /\ heap'[remote_devices[k]] = heap[remote_devices[k]]

\* C21: a connect that raises because of the configured failure or of the
\* credentials, and every exec_command, on one registered device leave the
\* key, credentials, responses, failure configuration and history of every
\* other registered device as they were
C21_DevicesIsolated ==
    [][/\ \A c \in Clients, host \in Hosts, port \in Ports,
            username \in Usernames, password \in Passwords :
            /\ ret'.op = "connect"
            /\ remote_devices[host_key(host, port)] # NoneRef
            /\ connect(c, host, port, username, password, "none")
            /\ ret'.exc # None
            => others_unchanged(remote_devices[host_key(host, port)])
       /\ \A c \in Clients, command \in SessionCommands :
            /\ ret'.op = "exec_command"
            /\ device[c] # NoneRef
            /\ registered(device[c])
            /\ exec_command(c, command)
            => others_unchanged(device[c])]_vars

\* a connect to h1 raised while h2 has a command in its history
C21_Witness ==
    /\ ret.op = "connect"
    /\ ret.exc \in {"TimeoutError", "AuthenticationException"}
    /\ selected_host[1] = host_key("h1", 22)
    /\ remote_devices[host_key("h2", 22)] # NoneRef
    /\ heap[remote_devices[host_key("h2", 22)]].command_history = <<CmdLs>>

-----------------------------------------------------------------------------
(* The history assertions: one host, a client running two commands in any   *)
(* order, and every assertion about either command                          *)

AssertIndexes == {-1, 0, 1, 2}

NextAssertions ==
    \/ RegistrationsOf({"h1"}, {<<TableLs, None, None, None>>})
    \/ Connects({1}, {"h1"}, {<<None, None>>}, {"none"})
    \/ Commands({1}, SessionCommands)
    \/ Assertions({"h1"}, SessionCommands, AssertIndexes)

SpecAssertions == Init /\ [][NextAssertions]_vars

\* the history of the device registered under host:port
history_of(host, port) ==
    heap[remote_devices[host_key(host, port)]].command_history

\* C22: on a registered device, assert_command_was_executed returns exactly
\* when the command is an entry of the history and assert_command_was_not_executed
\* exactly when it is not; otherwise they raise AssertionError; the history
\* stays as it was
C22_ExecutedAssertions ==
    [][\A host \in Hosts, port \in Ports, command \in SessionCommands :
        LET occurs == command \in {history_of(host, port)[i] :
                                      i \in DOMAIN history_of(host, port)}
        IN
        /\ /\ ret'.op = "assert_command_was_executed"
           /\ remote_devices[host_key(host, port)] # NoneRef
           /\ assert_command_was_executed(host, port, command)
           => /\ ret'.exc = (IF occurs THEN None ELSE "AssertionError")
              /\ heap' = heap
        /\ /\ ret'.op = "assert_command_was_not_executed"
           /\ remote_devices[host_key(host, port)] # NoneRef
           /\ assert_command_was_not_executed(host, port, command)
           => /\ ret'.exc = (IF occurs THEN "AssertionError" ELSE None)
              /\ heap' = heap]_vars

\* an assertion was called and raised while the history holds a command,
\* which is then not the one asserted
C22_Witness ==
    /\ ret.op = "assert_command_was_executed"
    /\ ret.exc = "AssertionError"
    /\ remote_devices[host_key("h1", 22)] # NoneRef
    /\ Len(history_of("h1", 22)) = MaxHist

\* C23: on a registered device, assert_command_executed_on_index returns
\* exactly when the history has an entry at the 0-based position index and
\* that entry is the command, and raises AssertionError in every other case
C23_IndexAssertion ==
    [][\A host \in Hosts, port \in Ports, command \in SessionCommands,
          index \in AssertIndexes :
        /\ ret'.op = "assert_command_executed_on_index"
        /\ remote_devices[host_key(host, port)] # NoneRef
        /\ assert_command_executed_on_index(host, port, command, index)
        => ret'.exc = (IF /\ index >= 0
                          /\ index < Len(history_of(host, port))
                          /\ history_of(host, port)[index + 1] = command
                       THEN None ELSE "AssertionError")]_vars

-----------------------------------------------------------------------------
(* The registry's construction: ParamikoMockEnviron() is called again by    *)
(* tests and by every connect, after the first access made the instance     *)

\* SingletonMeta's instances once the registry was accessed: one per class
instances == [ParamikoMockEnviron |-> 1]

\* type.__call__: every construction makes a new instance and runs __init__
type_call(kept, cls) ==
    [instance |-> 1 + Cardinality(DOMAIN kept), init |-> TRUE]

\* SingletonMeta.__call__: the instance kept for the class; a new one is made,
\* and its __init__ run, only when none is kept
SingletonMeta_call(kept, cls) ==
    IF cls \in DOMAIN kept
    THEN [instance |-> kept[cls], init |-> FALSE]
    ELSE [instance |-> 1 + Cardinality(DOMAIN kept), init |-> TRUE]

\* ParamikoMockEnviron(): __init__ gives the instance it runs on no devices
\* and an empty local filesystem, and that instance is the one the calls
\* after it see
ParamikoMockEnviron ==
    LET made == SingletonMeta_call(instances, "ParamikoMockEnviron") IN
    /\ ret' = Ret("ParamikoMockEnviron", NoneRef, None, [instance |-> made.instance])
    /\ IF made.init
       THEN /\ remote_devices' = [k \in DOMAIN remote_devices |-> NoneRef]
            /\ local_filesystem' = <<>>
            /\ store(heap, filesystems, remote_devices', device, sftp_client_mock)
       ELSE UNCHANGED <<remote_devices, local_filesystem, heap, filesystems>>
    /\ UNCHANGED <<device, selected_host, last_connect_kwargs, sftp_client_mock,
                   session>>

NextSingleton ==
    \/ RegistrationsOf(Hosts, {<<TableLs, None, None, None>>})
    \/ cleanup_environment
    \/ ParamikoMockEnviron
    \/ Connects({1}, Hosts, {<<None, None>>}, {"none"})
    \/ Commands({1}, {CmdLs})
    \/ LocalFiles({FileMock(<<"x">>)})

SpecSingleton == Init /\ [][NextSingleton]_vars

-----------------------------------------------------------------------------
(* Two ports of one host: each key with its device, a client connecting to  *)
(* either and working on files through its sub-client and the helpers       *)

HostPorts == {22, 2222}

PortKeys == {host_key("h1", port) : port \in HostPorts}

InitPorts ==
    /\ remote_devices = [k \in PortKeys |-> NoneRef]
    /\ heap = [id \in DevIds |-> NoDev]
    /\ filesystems = [id \in DevIds |-> NoFs]
    /\ local_filesystem = <<>>
    /\ device = [c \in Clients |-> NoneRef]
    /\ selected_host = [c \in Clients |-> Unset]
    /\ last_connect_kwargs = [c \in Clients |-> Unset]
    /\ sftp_client_mock = [c \in Clients |-> NoneObj]
    /\ session = [c \in Clients |-> "new"]
    /\ ret = Ret("init", NoneRef, None, NoneObj)

NextPorts ==
    \/ \E port \in HostPorts :
          \/ add_responses_for_host("h1", port, TableLs, None, None, None)
          \/ connect(1, "h1", port, None, None, "none")
          \/ \E path \in Paths :
                \/ add_mock_file_for_host("h1", port, path, FileMock(<<"x">>))
                \/ remove_mock_file_for_host("h1", port, path)
    \/ open_sftp(1)
    \/ \E path \in Paths : sftp_open(1, path, "w")
    \/ file_write(1, <<"y">>)
    \/ LocalFiles({FileMock(<<"x">>)})

SpecPorts == InitPorts /\ [][NextPorts]_vars

\* the remote filesystem of the device registered under a key
remote_files(key) == heap[remote_devices[key]].filesystem

\* C25: the devices registered under two keys, also keys of one host and two
\* ports, have two remote filesystems and the one local filesystem of the
\* registry; adding or removing a remote file through the registry, and
\* truncating or writing one through a sub-client, changes one remote
\* filesystem and leaves those of the other devices as they were
C25_RemoteFilesPerKey ==
    [][/\ \A k1 \in DOMAIN remote_devices', k2 \in DOMAIN remote_devices' :
            /\ remote_devices'[k1] # NoneRef
            /\ remote_devices'[k2] # NoneRef
            => /\ k1 # k2 =>
                     heap'[remote_devices'[k1]].filesystem
                        # heap'[remote_devices'[k2]].filesystem
               /\ heap'[remote_devices'[k1]].local_filesystem
                     = heap'[remote_devices'[k2]].local_filesystem
       /\ \A port \in HostPorts, path \in Paths :
            /\ ret'.op \in {"add_mock_file_for_host", "remove_mock_file_for_host"}
            /\ ret'.exc = None
            /\ \/ add_mock_file_for_host("h1", port, path, FileMock(<<"x">>))
               \/ remove_mock_file_for_host("h1", port, path)
            => \A k \in DOMAIN remote_devices :
                  remote_devices[k] # NoneRef /\ k # host_key("h1", port)
                  => /\ remote_files(k) # remote_files(host_key("h1", port))
                     /\ filesystems'[remote_files(k)] = filesystems[remote_files(k)]
       /\ ret'.op \in {"sftp_open", "file_write"} /\ ret'.exc = None
          => \A id \in DevIds :
                id # ret'.file.filesystem => filesystems'[id] = filesystems[id]]_vars

\* a file was written through the sub-client on one port's device while the
\* device of the other port holds a file with another content
C25_Witness ==
    /\ ret.op = "file_write"
    /\ \A k \in PortKeys : remote_devices[k] # NoneRef
    /\ \E k1 \in PortKeys, k2 \in PortKeys :
          /\ sftp_client_mock[1].filesystem = remote_files(k1)
          /\ ret.file.filesystem = remote_files(k1)
          /\ "/a" \in DOMAIN filesystems[remote_files(k2)]
          /\ filesystems[remote_files(k1)]["/a"] = FileMock(<<"y">>)
          /\ filesystems[remote_files(k2)]["/a"] = FileMock(<<"x">>)

-----------------------------------------------------------------------------
(* Connects that raise *)

\* C27 as claimed: after a connect that raised on a client that was not
\* connected, the client's next exec_command or open_sftp raises, and the
\* exec_command leaves every history as it was
C27_FailedConnectNotConnected ==
    [][\A c \in Clients :
          (/\ ret.op = "connect"
           /\ ret.client = c
           /\ ret.exc # None
           /\ session[c] # "connected"
           /\ ret'.op \in {"exec_command", "open_sftp"}
           /\ \/ \E command \in SessionCommands : exec_command(c, command)
              \/ open_sftp(c))
          => /\ ret'.exc # None
             /\ heap' = heap]_vars

\* one host registered with credentials, with or without a failure, and one
\* client connecting with the right and with a wrong password and with either
\* options
NextConnects ==
    \/ Registrations({"h1"}, {TableLs}, {<<"u", "p">>}, Failures)
    \/ Connects({1}, {"h1"}, {<<"u", "p">>, <<"u", "x">>}, Kwargs)
    \/ Commands({1}, {CmdLs})

SpecConnects == Init /\ [][NextConnects]_vars

\* C28: a connect that raises because of the device's configured failure or
\* of the credentials leaves the history of the device it named and the
\* options the client remembers from its last successful connect as they were
C28_FailedConnectKeepsHistory ==
    [][\A c \in Clients, host \in Hosts, port \in Ports,
          username \in Usernames, password \in Passwords, kwargs \in Kwargs :
          (/\ ret'.op = "connect"
           /\ ret'.exc \notin {None, "BadSetupError"}
           /\ connect(c, host, port, username, password, kwargs))
          => LET id == remote_devices[host_key(host, port)] IN
             /\ heap'[id].command_history = heap[id].command_history
             /\ last_connect_kwargs'[c] = last_connect_kwargs[c]]_vars

\* a connect raised on a device that holds a history, on a client that
\* remembers the options of an earlier connect
C28_Witness ==
    /\ ret.op = "connect"
    /\ ret.exc \in {"AuthenticationException", "TimeoutError"}
    /\ device[ret.client] # NoneRef
    /\ heap[device[ret.client]].command_history # <<>>
    /\ last_connect_kwargs[ret.client] = "banner_timeout"

-----------------------------------------------------------------------------
(* The sub-client after the client connected to another device *)

\* C29 as claimed: a file a connected client opens for writing through the
\* sub-client that open_sftp has just returned is a file of the remote
\* filesystem of the device the client is connected to
C29_SubClientFollowsConnect ==
    [][\A c \in Clients, path \in Paths :
          (/\ ret.op = "open_sftp"
           /\ ret.client = c
           /\ ret.exc = None
           /\ session[c] = "connected"
           /\ ret'.op = "sftp_open"
           /\ sftp_open(c, path, "w"))
          => /\ ret'.exc = None
             /\ ret'.file.filesystem = heap[device[c]].filesystem
             /\ filesystems'[heap[device[c]].filesystem][path] = FileMock(<<>>)]_vars

-----------------------------------------------------------------------------
(* Reading the streams of a static response *)

\* C30 as claimed: the full read of the output stream returned by an
\* exec_command that resolved to a static response yields the stdout the
\* response was configured with, on every execution
C30_StaticStdoutEveryTime ==
    [][\A c \in Clients :
          (/\ ret.op = "exec_command"
           /\ ret.client = c
           /\ ret.exc = None
           /\ last_response(c).kind = "static"
           /\ ret'.op = "read"
           /\ stdout_read(c))
          => ret'.val = last_response(c).stdout.value]_vars

-----------------------------------------------------------------------------
(* The history the registry sees after a client's command *)

\* C31 as claimed: directly after the exec_command of a command by a client
\* that connected successfully to host:port, assert_command_was_executed for
\* that host:port and command returns, also when the host:port was
\* registered again between the client's connect and its exec_command
C31_ExecutedCommandIsAsserted ==
    [][\A c \in Clients, command \in SessionCommands :
          (/\ ret.op = "exec_command"
           /\ ret.client = c
           /\ session[c] = "connected"
           /\ device[c] # NoneRef
           /\ last_command(c) = command
           /\ ret'.op = "assert_command_was_executed"
           /\ assert_command_was_executed(heap[device[c]].host,
                                          heap[device[c]].port, command))
          => ret'.exc = None]_vars

-----------------------------------------------------------------------------
(* Two clients on one host: each connects, runs its own command and closes  *)
(* in any order, and the host may be registered again                       *)

NextShared ==
    \/ RegistrationsOf({"h1"}, {<<TableLs, None, None, None>>})
    \/ Connects({1, 2}, {"h1"}, {<<None, None>>}, {"none"})
    \/ Commands({1}, {CmdLs})
    \/ Commands({2}, {CmdSl})
    \/ \E c \in {1, 2} : close(c)

SpecShared == Init /\ [][NextShared]_vars

\* C32: in every step the history of a device is extended at its end by the
\* command of the exec_command of a client that holds the device, emptied by
\* the successful connect of a client to it, or left as it was: the history
\* is the sequence of the commands of all its clients in call order since the
\* last successful connect
C32_SharedHistoryInCallOrder ==
    [][\A id \in DevIds :
          heap[id] # NoDev /\ heap'[id] # NoDev
          => IF ret'.op = "exec_command" /\ device[ret'.client] = id
             THEN \E command \in SessionCommands :
                     /\ exec_command(ret'.client, command)
                     /\ heap'[id].command_history
                           = Append(heap[id].command_history, command)
             ELSE IF /\ ret'.op = "connect"
                     /\ ret'.exc = None
                     /\ device'[ret'.client] = id
             THEN heap'[id].command_history = <<>>
             ELSE heap'[id].command_history = heap[id].command_history]_vars

\* both clients are connected to the registered device and its history holds
\* the command of the second client followed by that of the first
C32_Witness ==
    /\ ret.op = "exec_command"
    /\ ret.client = 1
    /\ session[1] = "connected"
    /\ session[2] = "connected"
    /\ device[1] = remote_devices[host_key("h1", 22)]
    /\ device[2] = device[1]
    /\ heap[device[1]].command_history = <<CmdSl, CmdLs>>

====
